---------------------------- MODULE Spec2Model ----------------------------
(***************************************************************************)
(* A model of vortex's per-connection session: MySQLServer.handle_client   *)
(* and MySQLServer.send_packet (src/src/server.py) and parse_client_packet *)
(* (src/src/parser.py).  Bytes are the integers 0..255, byte strings are   *)
(* sequences of bytes, and Python's 0-based slices are computed as the     *)
(* code computes them.                                                     *)
(*                                                                         *)
(*   Spec        one connection against a configured, listening server     *)
(*   SpecMulti   two connections interleaved                               *)
(*   SpecServer  MySQLServer's config, start and stop, and one connection  *)
(*   SpecSend    send_packet called on its own                             *)
(***************************************************************************)
EXTENDS Integers, Sequences, FiniteSets, TLC

(***************************************************************************)
(* Bounds of the model.                                                    *)
(***************************************************************************)
\* Largest number of columns a backend result set has in the model.
MaxCols == 2
\* Largest number of rows a backend result set has in the model.
MaxRows == 2
\* Largest number of command packets one session reads in the model.
MaxCmds == 2

\* The connections the listener accepts in the model.
Sessions == {1}

None == "None"
\* None where the other values are byte strings (Optional[bytes]): a
\* sequence that is no byte string.
NoneBytes == <<256>>

(***************************************************************************)
(* Byte-string helpers: Python bytes operations.                           *)
(***************************************************************************)
Min(a, b) == IF a < b THEN a ELSE b

\* b[i:j] with 0-based i, j >= 0 (Python clamps both to len(b)).
Slice(b, i, j) ==
    LET lo == Min(i, Len(b))
        hi == Min(j, Len(b))
    IN  IF hi <= lo THEN <<>> ELSE [k \in 1..(hi - lo) |-> b[lo + k]]

\* b[i:]
SliceFrom(b, i) == Slice(b, i, Len(b))

\* b.find(bytes([x]), start): the 0-based index of the first x at or after
\* start, or -1.
Find(b, x, start) ==
    LET hits == {k \in (start + 1)..Len(b) : b[k] = x}
    IN  IF hits = {} THEN -1
        ELSE (CHOOSE k \in hits : \A j \in hits : k <= j) - 1

\* int.from_bytes(b, "big")
RECURSIVE FromBig(_)
FromBig(b) ==
    IF b = <<>> THEN 0
    ELSE b[Len(b)] + 256 * FromBig(SubSeq(b, 1, Len(b) - 1))

\* int.from_bytes(b, "little")
RECURSIVE FromLittle(_)
FromLittle(b) ==
    IF b = <<>> THEN 0 ELSE b[1] + 256 * FromLittle(Tail(b))

\* The n low-order bytes of v, little-endian: pack("<I", v)[:n], pack("<H", v).
RECURSIVE Little(_, _)
Little(v, n) ==
    IF n = 0 THEN <<>> ELSE <<v % 256>> \o Little(v \div 256, n - 1)

\* b.ljust(n, b"\x00")
RECURSIVE Zeros(_)
Zeros(n) == IF n <= 0 THEN <<>> ELSE <<0>> \o Zeros(n - 1)

Ljust(b, n) == b \o Zeros(n - Len(b))

\* b"".join(parts)
RECURSIVE Join(_)
Join(parts) == IF parts = <<>> THEN <<>> ELSE Head(parts) \o Join(Tail(parts))

(***************************************************************************)
(* Text helpers: str.upper, str.strip, str.startswith, str(int) on ASCII.  *)
(***************************************************************************)
\* bytes.decode("utf-8", errors="ignore") on input that holds no valid
\* multi-byte sequence: every byte >= 0x80 is invalid and is dropped.
DecodeIgnore(b) == SelectSeq(b, LAMBDA x : x < 128)

UpperChar(x) == IF x >= 97 /\ x <= 122 THEN x - 32 ELSE x
Upper(t) == [k \in 1..Len(t) |-> UpperChar(t[k])]

\* The ASCII characters str.strip() removes.
IsSpace(x) == x \in {9, 10, 11, 12, 13, 28, 29, 30, 31, 32}

Strip(t) ==
    LET keep == {k \in 1..Len(t) : ~IsSpace(t[k])}
    IN  IF keep = {} THEN <<>>
        ELSE LET lo == CHOOSE k \in keep : \A j \in keep : k <= j
                 hi == CHOOSE k \in keep : \A j \in keep : k >= j
             IN  [k \in 1..(hi - lo + 1) |-> t[lo + k - 1]]

StartsWith(t, p) == Len(t) >= Len(p) /\ Slice(t, 0, Len(p)) = p

\* str(v).encode() for an integer v >= 0.
RECURSIVE Str(_)
Str(v) == IF v < 10 THEN <<48 + v>> ELSE Str(v \div 10) \o <<48 + (v % 10)>>

(***************************************************************************)
(* hashlib.sha1 and the XOR of parser.py line 99.  The digest is library   *)
(* code; it is modelled as a fixed deterministic function from byte        *)
(* strings to DigestLen bytes that separates the inputs of the model.      *)
(***************************************************************************)
DigestLen == 20

RECURSIVE Absorb(_, _)
Absorb(h, m) ==
    IF m = <<>> THEN h ELSE Absorb((h * 33 + Head(m) + 1) % 65521, Tail(m))

sha1(m) ==
    LET h == Absorb(5381, m)
    IN  [i \in 1..DigestLen |-> ((h + 1) * (2 * i + 1) + i * i) % 256]

RECURSIVE XorByte(_, _)
XorByte(a, b) ==
    IF a = 0 /\ b = 0 THEN 0
    ELSE ((a + b) % 2) + 2 * XorByte(a \div 2, b \div 2)

\* bytes(a ^ b for a, b in zip(x, y))
Xor(x, y) == [k \in 1..Min(Len(x), Len(y)) |-> XorByte(x[k], y[k])]

(***************************************************************************)
(* Protocol constants.                                                     *)
(***************************************************************************)
CLIENT_PLUGIN_AUTH == 524288
\* 0xFFFFFF, the largest payload send_packet accepts.
MaxPayload == 16777215

\* b"\x00\x00\x00\x02\x00\x00\x00"
OK_PACKET == <<0, 0, 0, 2, 0, 0, 0>>
\* b"\xfe\x00\x00\x02\x00"
EOF_PACKET == <<254, 0, 0, 2, 0>>
\* b"\xff\x04\x04#28000"
ERR_PREFIX == <<255, 4, 4, 35, 50, 56, 48, 48, 48>>
\* b"\xff\x04\x04#28000Authentication plugin not supported"
ERR_PLUGIN == ERR_PREFIX \o
    <<65, 117, 116, 104, 101, 110, 116, 105, 99, 97, 116, 105, 111, 110, 32,
      112, 108, 117, 103, 105, 110, 32, 110, 111, 116, 32,
      115, 117, 112, 112, 111, 114, 116, 101, 100>>
\* b"\xff\x04\x04#28000Access denied"
ERR_DENIED ==
    ERR_PREFIX \o <<65, 99, 99, 101, 115, 115, 32, 100, 101, 110, 105, 101, 100>>
\* b"\x03def\x00\x00\x00"
COLDEF_HEAD == <<3, 100, 101, 102, 0, 0, 0>>
\* b"\x0c\x21\x00\xff\x00\x00\xfc\x00\x00\x00\x00\x00"
COLDEF_TAIL == <<12, 33, 0, 255, 0, 0, 252, 0, 0, 0, 0, 0>>
\* "SELECT", "USE", "SHOW DATABASES"
KW_SELECT == <<83, 69, 76, 69, 67, 84>>
KW_USE == <<85, 83, 69>>
KW_SHOW_DATABASES ==
    <<83, 72, 79, 87, 32, 68, 65, 84, 65, 66, 65, 83, 69, 83>>
\* b"\x08Database", b"\x07sqlite3"
SHOW_COLDEF ==
    COLDEF_HEAD \o <<8, 68, 97, 116, 97, 98, 97, 115, 101>> \o COLDEF_TAIL
SHOW_ROW == <<7, 115, 113, 108, 105, 116, 101, 51>>

(***************************************************************************)
(* MySQLServer: the dataclass fields and their defaults.                   *)
(***************************************************************************)
\* "vortex"
DefaultUsername == <<118, 111, 114, 116, 101, 120>>
\* "5.7.0-custom"
DefaultServerVersion == <<53, 46, 55, 46, 48, 45, 99, 117, 115, 116, 111, 109>>
\* "mysql_native_password"
DefaultAuthPlugin ==
    <<109, 121, 115, 113, 108, 95, 110,
      97, 116, 105, 118, 101, 95, 112, 97, 115, 115, 119, 111, 114, 100>>
DefaultCapabilityFlags == 10541055
DefaultCharset == 33
DefaultStatusFlags == 2
DefaultHost == "127.0.0.1"
DefaultPort == 3306
DefaultDataFile == "/tmp/sqlite.db"

\* The passwords a server of the model is configured with: "" and "pw".
Passwords == {<<>>, <<112, 119>>}

\* The 20-byte salts os.urandom(20) yields in the model.
SaltA == [i \in 1..20 |-> i]
SaltB == [i \in 1..20 |-> 255 - 3 * i]
Salts == {SaltA, SaltB}

\* The listener: self.server is None until start() binds it.
Listening == "listening"

\* A MySQLServer as constructed (fields passed to the dataclass, _auth_data
\* left None) or as returned by config(), which always sets a salt; its
\* listener is bound.
ServerOf(password, auth_data) ==
    [_host |-> DefaultHost,
     _port |-> DefaultPort,
     _data_file |-> DefaultDataFile,
     server |-> Listening,
     _username |-> DefaultUsername,
     _password |-> password,
     _server_version |-> DefaultServerVersion,
     _auth_plugin |-> DefaultAuthPlugin,
     _auth_data |-> auth_data,
     _capability_flags |-> DefaultCapabilityFlags,
     _charset |-> DefaultCharset,
     _status_flags |-> DefaultStatusFlags]

Servers == {ServerOf(p, a) : p \in Passwords, a \in Salts \cup {NoneBytes}}

(***************************************************************************)
(* Exceptions.  sqlite_error is DatabaseError's second argument.           *)
(***************************************************************************)
Exc(type) == [type |-> type, sqlite_error |-> None]
NoExc == Exc("none")
\* errors.py: DatabaseError(message, sqlite_error)
DatabaseError(e) == [type |-> "DatabaseError", sqlite_error |-> e]

(***************************************************************************)
(* MySQLServer.send_packet.  io is what the socket does with the write:    *)
(* "ok", or "fail" when write/drain raises OSError or TimeoutError.  The   *)
(* result names the exception raised, the packet handed to the writer (if  *)
(* any) and the sequence id returned.                                      *)
(***************************************************************************)
IoOutcomes == {"ok", "fail"}

\* The sequence id is packed before the length is tested.
send_packet_packs_first(payload, seq, io) ==
    IF seq \notin 0..255
    THEN [raised |-> Exc("struct.error"), written |-> <<>>, ret |-> None]
    ELSE IF Len(payload) > MaxPayload
    THEN [raised |-> Exc("ProtocolError"), written |-> <<>>, ret |-> None]
    ELSE LET packet == Slice(Little(Len(payload), 4), 0, 3) \o <<seq>> \o payload
         IN  IF io = "fail"
             THEN [raised |-> Exc("ConnectionError"),
                   written |-> <<packet>>, ret |-> None]
             ELSE [raised |-> NoExc, written |-> <<packet>>, ret |-> seq + 1]

send_packet(payload, seq, io) ==
    IF Len(payload) > MaxPayload
    THEN [raised |-> Exc("ProtocolError"), written |-> <<>>, ret |-> None]
    ELSE IF seq \notin 0..255
    \* pack("B", sequence_id) raises struct.error outside 0..255
    THEN [raised |-> Exc("struct.error"), written |-> <<>>, ret |-> None]
    ELSE LET packet == Slice(Little(Len(payload), 4), 0, 3) \o <<seq>> \o payload
         IN  IF io = "fail"
             THEN [raised |-> Exc("ConnectionError"),
                   written |-> <<packet>>, ret |-> None]
             ELSE [raised |-> NoExc, written |-> <<packet>>, ret |-> seq + 1]

\* The inbound parsing rule of parser.py lines 49-50 and 127-128.
PacketLen(packet) == FromLittle(Slice(packet, 0, 3))
PacketSeq(packet) == packet[4]
PacketPayload(packet) == Slice(packet, 4, 4 + PacketLen(packet))

(***************************************************************************)
(* MySQLServer.handle_client: the greeting (Protocol 10).                  *)
(***************************************************************************)
Handshake(server) ==
    <<10>>
    \o server._server_version \o <<0>>
    \o Little(1, 4)
    \o (IF server._auth_data # NoneBytes /\ server._auth_data # <<>>
        THEN Slice(server._auth_data, 0, 8) ELSE Zeros(8))
    \o <<0>>
    \o Little(server._capability_flags % 65536, 2)
    \o <<server._charset>>
    \o Little(server._status_flags, 2)
    \o Little(server._capability_flags \div 65536, 2)
    \o <<21>>
    \o Zeros(10)
    \o (IF server._auth_data # NoneBytes /\ server._auth_data # <<>>
        THEN SliceFrom(server._auth_data, 8) ELSE Zeros(12))
    \o server._auth_plugin \o <<0>>

(***************************************************************************)
(* parse_client_packet, lines 48-105: the handshake response is parsed and *)
(* the client authenticated.  The verdict is the place the code goes next: *)
(* an IndexError (data[3], data[12] on a short read), one of the five ERR  *)
(* sends, or the OK send.                                                  *)
(***************************************************************************)
HasPluginAuth(client_capabilities) ==
    (client_capabilities \div CLIENT_PLUGIN_AUTH) % 2 = 1

\* lines 90-99: the response the code expects.
ExpectedResponse(server) ==
    LET password_hash == sha1(server._password)
        stage1 == sha1(password_hash)
        stage2 == sha1(server._auth_data \o stage1)
    IN  Xor(password_hash, stage2)

HandshakeVerdict(server, d) ==
    IF Len(d) < 13 THEN "IndexError"
    ELSE
    LET client_capabilities == FromLittle(Slice(d, 4, 8))
        username_end == Find(d, 0, 23)
        username == DecodeIgnore(Slice(d, 23, username_end))
        auth_len == FromLittle(Slice(d, username_end + 1, username_end + 2))
        auth_response ==
            Slice(d, username_end + 2, username_end + 2 + auth_len)
    IN  IF ~HasPluginAuth(client_capabilities) THEN "err_plugin"
        ELSE IF username_end = -1 THEN "err_malformed"
        ELSE IF username # server._username THEN "err_username"
        ELSE IF server._password # <<>>
        THEN IF server._auth_data = NoneBytes THEN "err_nosalt"
             ELSE IF auth_response # ExpectedResponse(server)
             THEN "err_response"
             ELSE "auth_ok"
        ELSE "auth_ok"

\* The payload sent at each verdict.
VerdictPayload(verdict) ==
    CASE verdict = "err_plugin" -> ERR_PLUGIN
      [] verdict = "auth_ok" -> OK_PACKET
      [] OTHER -> ERR_DENIED

RejectStates ==
    {"err_plugin", "err_malformed", "err_username", "err_nosalt",
     "err_response"}

(***************************************************************************)
(* parse_client_packet, lines 127-197: a command packet is parsed, routed  *)
(* and run against the backend.                                            *)
(***************************************************************************)
\* lines 129-131
Query(d) == Strip(SliceFrom(DecodeIgnore(PacketPayload(d)), 1))

\* lines 135, 169, 173, 189: the branch taken.
Route(query) ==
    LET query_upper == Upper(query)
    IN  IF StartsWith(query_upper, KW_SELECT) THEN "select"
        ELSE IF StartsWith(query_upper, KW_USE) THEN "use"
        ELSE IF query_upper = KW_SHOW_DATABASES THEN "show_databases"
        ELSE "statement"

\* lines 144-149
ColumnDefinition(col) == COLDEF_HEAD \o <<Len(col)>> \o col \o COLDEF_TAIL

\* lines 157-160
RowData(row) ==
    Join([i \in 1..Len(row) |-> <<Len(Str(row[i]))>> \o Str(row[i])])

\* lines 139-166: the payloads of a result set, in send order.
ResultSetPayloads(columns, rows) ==
    <<<<Len(columns)>>>>
    \o [i \in 1..Len(columns) |-> ColumnDefinition(columns[i])]
    \o <<EOF_PACKET>>
    \o [j \in 1..Len(rows) |-> RowData(rows[j])]
    \o <<EOF_PACKET>>

\* lines 174-188
ShowDatabasesPayloads ==
    <<<<1>>, SHOW_COLDEF, EOF_PACKET, SHOW_ROW, EOF_PACKET>>

(***************************************************************************)
(* The backend (sqlite3): what cursor.execute / fetchall / conn.commit do  *)
(* is the backend's choice.  A result has n columns named x, y, ... and m  *)
(* rows of integers.                                                       *)
(***************************************************************************)
Columns(n) == [i \in 1..n |-> <<119 + i>>]
Rows(n, m) == [j \in 1..m |-> [i \in 1..n |-> 10 * (j - 1) + 8 + i]]

\* The sqlite3.Error subclasses the backend raises in the model.
SqliteErrors == {"OperationalError", "IntegrityError"}

\* cursor.execute(query) on the query route: an error, or a result set.
SelectOutcomes ==
    {[kind |-> e, columns |-> <<>>, rows |-> <<>>] : e \in SqliteErrors}
    \cup {[kind |-> "ok", columns |-> Columns(n), rows |-> Rows(n, m)] :
            n \in 1..MaxCols, m \in 0..MaxRows}

\* cursor.execute(query); conn.commit() on the statement route: what each
\* call raises (commit is reached only when execute raised nothing).
StatementOutcomes ==
    {[execute |-> None, commit |-> None]}
    \cup {[execute |-> e, commit |-> None] : e \in SqliteErrors}
    \cup {[execute |-> None, commit |-> e] : e \in SqliteErrors}

(***************************************************************************)
(* What the client sends.                                                  *)
(***************************************************************************)
\* The sequence ids the client puts in its packets.
ClientSeqs == {0, 1, 250, 253, 255}

\* Capability masks with and without CLIENT_PLUGIN_AUTH: 0xFA685, 0x7A685.
ClientCapabilities == {1025669, 501381}

\* "vortex", "root"
ClientUsernames == {<<118, 111, 114, 116, 101, 120>>, <<114, 111, 111, 116>>}

\* The scramble a client computes from a password and the greeting's salt.
Scramble(password, salt) ==
    Xor(sha1(password), sha1(salt \o sha1(sha1(password))))

\* Auth responses: none, the scramble of "pw" under each salt, and SHA1(pw).
ClientAuthResponses ==
    {<<>>, sha1(<<112, 119>>)} \cup {Scramble(<<112, 119>>, s) : s \in Salts}

\* A handshake response in the layout the parser reads: 4-byte envelope,
\* capabilities (4), max packet size (4), charset (1), filler up to offset
\* 23, username, NUL, 1-byte length, auth response, plugin name, NUL.  With
\* term = FALSE the packet ends after the username, without a NUL.
HandshakeResponse(c, caps, user, term, auth) ==
    LET payload ==
            Little(caps, 4) \o <<0, 0, 0, 1>> \o <<33>> \o Zeros(10) \o user
            \o (IF term
                THEN <<0, Len(auth)>> \o auth \o DefaultAuthPlugin \o <<0>>
                ELSE <<>>)
    IN  Little(Len(payload), 3) \o <<c>> \o payload

HandshakeInputs ==
    {HandshakeResponse(c, caps, u, t, a) :
        c \in ClientSeqs, caps \in ClientCapabilities,
        u \in ClientUsernames, t \in BOOLEAN, a \in ClientAuthResponses}
    \cup {<<1, 0>>}

\* COM_QUERY packets: "SELECT 8", " use d", "Show Databases", "DELETE",
\* "Users"
CommandTexts ==
    {<<83, 69, 76, 69, 67, 84, 32, 56>>,
     <<32, 117, 115, 101, 32, 100>>,
     <<83, 104, 111, 119, 32, 68, 97, 116, 97, 98, 97, 115, 101, 115>>,
     <<68, 69, 76, 69, 84, 69>>,
     <<85, 115, 101, 114, 115>>}

CommandPacket(c, text) == Little(1 + Len(text), 3) \o <<c>> \o <<3>> \o text

CommandInputs ==
    {CommandPacket(c, t) : c \in ClientSeqs, t \in CommandTexts}
    \cup {<<1, 0>>}

(***************************************************************************)
(* State.                                                                  *)
(*   srv      the MySQLServer the listener serves                          *)
(*   session  per accepted connection, the locals of handle_client and     *)
(*            parse_client_packet and what the connection has seen:        *)
(*     pc           where the coroutine is suspended (or "init", "done")   *)
(*     data         the bytes of the last read                             *)
(*     client_seq   data[3] of the last read                               *)
(*     sequence_id  the local sequence_id                                  *)
(*     todo         the payloads still to send for the packet just read    *)
(*     resp         the packets handed to the writer since the last read   *)
(*     events       connect(), conn.close(), writer.close() calls in order *)
(*     columns,     the result set of the last query                       *)
(*     rows                                                                *)
(*     ops          the backend calls made for the command just read, each *)
(*                  with the sqlite3.Error it raised (or None)             *)
(*     ncmd         the number of command packets read                     *)
(*     route        the branch the last command took                       *)
(*     io           what the socket did with the last write                *)
(*     exc          the exception that left the handler, if any            *)
(*     ended        the branch in which the handler ended                  *)
(*   db       the number of statements committed to the backend store      *)
(***************************************************************************)
VARIABLES srv, session, db

vars == <<srv, session, db>>

NewSession ==
    [pc |-> "init", data |-> <<>>, client_seq |-> 0, sequence_id |-> 0,
     todo |-> <<>>, resp |-> <<>>, events |-> <<>>, ops |-> <<>>,
     columns |-> <<>>, rows |-> <<>>, ncmd |-> 0, route |-> "none", io |-> "ok",
     exc |-> NoExc, ended |-> "no"]

\* The session after send_packet returned or raised r: the packet handed to
\* the writer, if one was, and what the socket did with it.
Written(ss, r, io) ==
    [ss EXCEPT !.resp = @ \o r.written,
               !.io = IF r.written = <<>> THEN @ ELSE io]

Init ==
    /\ srv \in Servers
    /\ session = [s \in Sessions |-> NewSession]
    /\ db = 0

\* The handler returns or raises before the try block of line 117: nothing
\* is closed.
Leave(ss, where, e) ==
    [ss EXCEPT !.pc = "done", !.ended = where, !.exc = e, !.todo = <<>>]

\* Finally without conn.close().
FinallyLeaksBackend(ss, where, e) ==
    [ss EXCEPT !.pc = "done", !.ended = where, !.exc = e, !.todo = <<>>,
               !.events = @ \o <<"writer.close">>]

\* lines 199-202: the handler leaves the try block, by break or by an
\* exception.
Finally(ss, where, e) ==
    [ss EXCEPT !.pc = "done", !.ended = where, !.exc = e, !.todo = <<>>,
               !.events = @ \o <<"conn.close", "writer.close">>]

(***************************************************************************)
(* handle_client, lines 92-124: the connection is accepted and the         *)
(* greeting sent with sequence id 0.                                       *)
(***************************************************************************)
Accept(s) ==
    /\ srv.server # None
    /\ session[s].pc = "init"
    /\ \E io \in IoOutcomes :
         LET ss == session[s]
             r == send_packet(Handshake(srv), 0, io)
         IN  session' = [session EXCEPT ![s] =
                 IF r.raised # NoExc
                 THEN Leave(Written(ss, r, io), "greeting", r.raised)
                 ELSE [Written(ss, r, io) EXCEPT !.sequence_id = r.ret,
                                                 !.pc = "handshake"]]
    /\ UNCHANGED <<srv, db>>

(***************************************************************************)
(* parse_client_packet, lines 38-46: the first read times out or returns   *)
(* no data.                                                                *)
(***************************************************************************)
HandshakeTimeout(s) ==
    /\ session[s].pc = "handshake"
    /\ session' = [session EXCEPT ![s] = Leave(@, "hs_timeout", NoExc)]
    /\ UNCHANGED <<srv, db>>

HandshakeEmpty(s) ==
    /\ session[s].pc = "handshake"
    /\ session' = [session EXCEPT ![s] = Leave(@, "hs_empty", NoExc)]
    /\ UNCHANGED <<srv, db>>

(***************************************************************************)
(* lines 48-105: the handshake response arrives and is judged; the session *)
(* goes on to send the ERR or the OK packet.                               *)
(***************************************************************************)
\* connect() called before the handshake response is judged.
RecvHandshakeConnectsFirst(s) ==
    /\ session[s].pc = "handshake"
    /\ \E d \in HandshakeInputs :
         LET ss == [session[s] EXCEPT !.data = d, !.resp = <<>>,
                                      !.events = <<"connect">>]
             verdict == HandshakeVerdict(srv, d)
         IN  session' = [session EXCEPT ![s] =
                 IF verdict = "IndexError"
                 THEN Leave(ss, "hs_parse", Exc("IndexError"))
                 ELSE [ss EXCEPT !.client_seq = PacketSeq(d), !.pc = verdict,
                                 !.todo = <<VerdictPayload(verdict)>>]]
    /\ UNCHANGED <<srv, db>>

RecvHandshake(s) ==
    /\ session[s].pc = "handshake"
    /\ \E d \in HandshakeInputs :
         LET ss == [session[s] EXCEPT !.data = d, !.resp = <<>>]
             verdict == HandshakeVerdict(srv, d)
         IN  session' = [session EXCEPT ![s] =
                 IF verdict = "IndexError"
                 THEN Leave(ss, "hs_parse", Exc("IndexError"))
                 ELSE [ss EXCEPT !.client_seq = PacketSeq(d), !.pc = verdict,
                                 !.todo = <<VerdictPayload(verdict)>>]]
    /\ UNCHANGED <<srv, db>>

(***************************************************************************)
(* lines 63-68, 72-75, 84-87, 94-97, 102-105: the ERR packet is sent at    *)
(* client_seq + 1 and the handler returns.                                 *)
(***************************************************************************)
\* The rejection takes the listener down and resets the other sessions.
SendRejectStopsListener(s) ==
    /\ session[s].pc \in RejectStates
    /\ \E io \in IoOutcomes :
         LET ss == session[s]
             r == send_packet(Head(ss.todo), ss.client_seq + 1, io)
         IN  session' = [t \in DOMAIN session |->
                 IF t = s THEN Leave(Written(ss, r, io), ss.pc,
                                     r.raised)
                 ELSE [session[t] EXCEPT !.sequence_id = 0]]
    /\ srv' = [srv EXCEPT !.server = None]
    /\ UNCHANGED db

SendReject(s) ==
    /\ session[s].pc \in RejectStates
    /\ \E io \in IoOutcomes :
         LET ss == session[s]
             r == send_packet(Head(ss.todo), ss.client_seq + 1, io)
         IN  session' = [session EXCEPT ![s] =
                 Leave(Written(ss, r, io), ss.pc, r.raised)]
    /\ UNCHANGED <<srv, db>>

(***************************************************************************)
(* lines 108-115: the OK packet is sent at client_seq + 1, then the        *)
(* backend connection and its cursor are opened; connect() may raise.      *)
(***************************************************************************)
SendAuthOk(s) ==
    /\ session[s].pc = "auth_ok"
    /\ \E io \in IoOutcomes, opened \in BOOLEAN :
         LET ss == session[s]
             r == send_packet(Head(ss.todo), ss.client_seq + 1, io)
             sent == Written(ss, r, io)
         IN  session' = [session EXCEPT ![s] =
                 IF r.raised # NoExc
                 THEN Leave(sent, "auth_ok", r.raised)
                 ELSE IF ~opened
                 THEN Leave([sent EXCEPT !.sequence_id = r.ret], "connect",
                            Exc("sqlite3.Error"))
                 ELSE [sent EXCEPT !.sequence_id = r.ret, !.todo = <<>>,
                                   !.events = <<"connect">>, !.pc = "ready"]]
    /\ UNCHANGED <<srv, db>>

(***************************************************************************)
(* lines 119-126: the read of the command loop times out, or returns no    *)
(* data; the loop breaks and the finally block runs.                       *)
(***************************************************************************)
\* The timeout is not caught and leaves the handler.
IdleTimeoutRaises(s) ==
    /\ session[s].pc = "ready"
    /\ session' = [session EXCEPT ![s] =
          Finally(@, "idle_timeout", Exc("TimeoutError"))]
    /\ UNCHANGED <<srv, db>>

IdleTimeout(s) ==
    /\ session[s].pc = "ready"
    /\ session' = [session EXCEPT ![s] = Finally(@, "idle_timeout", NoExc)]
    /\ UNCHANGED <<srv, db>>

ClientDisconnect(s) ==
    /\ session[s].pc = "ready"
    /\ session' = [session EXCEPT ![s] = Finally(@, "disconnect", NoExc)]
    /\ UNCHANGED <<srv, db>>

(***************************************************************************)
(* lines 127-197: a command packet arrives, is parsed and routed, and the  *)
(* backend is called where the route calls it.  sel and st are what the    *)
(* backend does on the query and on the statement route.  The result is    *)
(* the session after the step and the number of statements committed.      *)
(***************************************************************************)
Call(name, raised) == [call |-> name, raised |-> raised]

\* The backend's error is swallowed and the loop reads on.
BackendFailureIgnored(ss, calls) ==
    [ss EXCEPT !.ops = calls, !.todo = <<>>, !.pc = "ready"]

\* lines 167-168 and 196-197: a sqlite3.Error of the backend is wrapped in a
\* DatabaseError that leaves the try block.
BackendFailure(ss, calls) ==
    Finally([ss EXCEPT !.ops = calls], "backend_error",
            DatabaseError(calls[Len(calls)].raised))

Dispatch(ss0, d, sel, st) ==
    LET ss == [ss0 EXCEPT !.data = d, !.resp = <<>>, !.ops = <<>>,
                          !.ncmd = @ + 1, !.route = "none"]
    IN
    IF Len(d) < 4
    THEN [session |-> Finally(ss, "cmd_parse", Exc("IndexError")),
          committed |-> 0]
    ELSE
    LET route == Route(Query(d))
        cs == [ss EXCEPT !.client_seq = PacketSeq(d), !.pc = "respond",
                         !.route = route]
    IN  CASE route = "select" ->
               IF sel.kind # "ok"
               THEN [session |->
                        BackendFailure(cs, <<Call("execute", sel.kind)>>),
                     committed |-> 0]
               ELSE [session |->
                        [cs EXCEPT !.ops = <<Call("execute", None),
                                             Call("fetchall", None)>>,
                                   !.rows = sel.rows,
                                   !.columns = sel.columns,
                                   !.todo = ResultSetPayloads(sel.columns,
                                                              sel.rows)],
                     committed |-> 0]
          [] route = "use" ->
               [session |-> [cs EXCEPT !.todo = <<OK_PACKET>>],
                committed |-> 0]
          [] route = "show_databases" ->
               [session |-> [cs EXCEPT !.todo = ShowDatabasesPayloads],
                committed |-> 0]
          [] OTHER ->
               IF st.execute # None
               THEN [session |->
                        BackendFailure(cs, <<Call("execute", st.execute)>>),
                     committed |-> 0]
               ELSE IF st.commit # None
               THEN [session |->
                        BackendFailure(cs, <<Call("execute", None),
                                             Call("commit", st.commit)>>),
                     committed |-> 0]
               ELSE [session |->
                        [cs EXCEPT !.ops = <<Call("execute", None),
                                             Call("commit", None)>>,
                                   !.todo = <<OK_PACKET>>],
                     committed |-> 1]

\* The backend outcomes that matter to the route of d: one fixed outcome
\* where the route does not call the backend.
SelectOutcomesFor(d) ==
    IF Len(d) >= 4 /\ Route(Query(d)) = "select" THEN SelectOutcomes
    ELSE {[kind |-> "ok", columns |-> <<>>, rows |-> <<>>]}

StatementOutcomesFor(d) ==
    IF Len(d) >= 4 /\ Route(Query(d)) = "statement" THEN StatementOutcomes
    ELSE {[execute |-> None, commit |-> None]}

\* The next command is read while packets of the response are still to send.
RecvCommandPipelined(s) ==
    /\ session[s].pc \in {"ready", "respond"}
    /\ session[s].ncmd < MaxCmds
    /\ \E d \in CommandInputs :
         \E sel \in SelectOutcomesFor(d), st \in StatementOutcomesFor(d) :
            LET r == Dispatch(session[s], d, sel, st)
            IN  /\ session' = [session EXCEPT ![s] = r.session]
                /\ db' = db + r.committed
    /\ UNCHANGED srv

RecvCommand(s) ==
    /\ session[s].pc = "ready"
    /\ session[s].ncmd < MaxCmds
    /\ \E d \in CommandInputs :
         \E sel \in SelectOutcomesFor(d), st \in StatementOutcomesFor(d) :
            LET r == Dispatch(session[s], d, sel, st)
            IN  /\ session' = [session EXCEPT ![s] = r.session]
                /\ db' = db + r.committed
    /\ UNCHANGED srv

(***************************************************************************)
(* lines 140-194: the next packet of the response is sent, the first at    *)
(* client_seq + 1 and each later one at the id the previous send returned. *)
(* After the last one the loop reads again.  A failed send leaves the try  *)
(* block.                                                                  *)
(***************************************************************************)
SendResponse(s) ==
    /\ session[s].pc = "respond"
    /\ \E io \in IoOutcomes :
         LET ss == session[s]
             seq == IF ss.resp = <<>> THEN ss.client_seq + 1
                    ELSE ss.sequence_id
             r == send_packet(Head(ss.todo), seq, io)
             sent == Written(ss, r, io)
         IN  session' = [session EXCEPT ![s] =
                 IF r.raised # NoExc
                 THEN Finally(sent, "respond", r.raised)
                 ELSE [sent EXCEPT !.sequence_id = r.ret,
                                   !.todo = Tail(@),
                                   !.pc = IF Tail(ss.todo) = <<>>
                                          THEN "ready" ELSE "respond"]]
    /\ UNCHANGED <<srv, db>>

Next ==
    \E s \in Sessions :
        \/ Accept(s)
        \/ HandshakeTimeout(s)
        \/ HandshakeEmpty(s)
        \/ RecvHandshake(s)
        \/ SendReject(s)
        \/ SendAuthOk(s)
        \/ IdleTimeout(s)
        \/ ClientDisconnect(s)
        \/ RecvCommand(s)
        \/ SendResponse(s)

Spec == Init /\ [][Next]_vars

(***************************************************************************)
(* Vocabulary of the properties: what the client sent and what it was      *)
(* sent, read off the bytes.                                               *)
(***************************************************************************)
\* The packet with payload p and sequence id q, as the protocol frames it.
Framed(p, q) == Little(Len(p), 3) \o <<q>> \o p

\* The payloads and the sequence ids of the packets sent since the last read.
SentPayloads(ss) == [i \in 1..Len(ss.resp) |-> SliceFrom(ss.resp[i], 4)]
SentSeqs(ss) == [i \in 1..Len(ss.resp) |-> ss.resp[i][4]]

IsOk(packet) == SliceFrom(packet, 4) = OK_PACKET
\* FF <err-lo> <err-hi> '#' "28000" ...
IsErr28000(packet) ==
    /\ Len(packet) >= 13
    /\ packet[5] = 255
    /\ Slice(packet, 7, 13) = <<35, 50, 56, 48, 48, 48>>

\* The session has answered the handshake response it read: data is still
\* that response, and the send that follows the verdict has been made (or
\* the handler has ended).
AnsweredHandshake(ss) ==
    /\ ss.ncmd = 0
    /\ ss.data # <<>>
    /\ ss.pc \in {"ready", "done"}

\* The fields of a handshake response d, as the client laid them out.
ClientHasPluginAuth(d) == (FromLittle(Slice(d, 4, 8)) \div 524288) % 2 = 1
ClientHasTerminator(d) == \E k \in 24..Len(d) : d[k] = 0
ClientUsername(d) == Slice(d, 23, Find(d, 0, 23))
ClientAuthResponse(d) ==
    LET z == Find(d, 0, 23)
    IN  IF z + 2 > Len(d) THEN <<>> ELSE Slice(d, z + 2, z + 2 + d[z + 2])

\* expected = SHA1(P) XOR SHA1(salt + SHA1(SHA1(P))), where a salt exists.
CredentialsValid(server, d) ==
    /\ ClientUsername(d) = server._username
    /\ \/ server._password = <<>>
       \/ /\ server._auth_data # NoneBytes
          /\ ClientAuthResponse(d) =
                Scramble(server._password, server._auth_data)

\* The socket did not fail under the session.
NoIoFailure(ss) == ss.exc.type # "ConnectionError"

(***************************************************************************)
(* C1.  For every handshake response that passes the plugin-auth and the   *)
(* username-terminator checks, the session sends the OK packet (payload    *)
(* 00 00 00 02 00 00 00, at client_seq + 1) if and only if the username    *)
(* equals the configured one and the configured password is empty or the   *)
(* auth response equals expected; in every other case it sends an ERR      *)
(* packet with SQLSTATE 28000 and no OK packet.                            *)
(* Violated: pack("B", client_seq + 1) raises for client_seq = 255, and    *)
(* neither packet is sent.                                                 *)
(***************************************************************************)
C1_OkIffCredentialsValid ==
    \A s \in Sessions :
        LET ss == session[s]
            d == ss.data
        IN  (/\ AnsweredHandshake(ss)
             /\ Len(d) >= 13
             /\ ClientHasPluginAuth(d)
             /\ ClientHasTerminator(d))
            => IF CredentialsValid(srv, d)
               THEN ss.resp = <<Framed(OK_PACKET, d[4] + 1)>>
               ELSE /\ Len(ss.resp) = 1
                    /\ IsErr28000(ss.resp[1])
                    /\ ss.resp[1][4] = d[4] + 1
                    /\ ss.pc = "done"

(***************************************************************************)
(* C2.  The packets sent in response to a client packet with sequence id c *)
(* carry the ids (c+1) mod 256, (c+2) mod 256, ... in send order; every id *)
(* on the wire is in 0..255, every id send_packet returns is the id sent   *)
(* plus one modulo 256, and no response is cut short by its ids.           *)
(* Violated: send_packet returns sequence_id + 1 unreduced (256 after 255) *)
(* and pack("B", 256) raises struct.error.                                 *)
(***************************************************************************)
C2_SequenceIdsWrap ==
    \A s \in Sessions :
        LET ss == session[s]
        IN  Len(ss.data) >= 4 =>
              /\ \A i \in 1..Len(ss.resp) :
                    ss.resp[i][4] = (ss.data[4] + i) % 256
              /\ ss.sequence_id \in 0..255
              /\ ss.exc.type # "struct.error"

(***************************************************************************)
(* C3.  A session that opened a backend connection closes it exactly once  *)
(* on every way out of the session, and before it closes its socket: the   *)
(* calls are connect, then (at the end) conn.close, writer.close, and no   *)
(* session ends with the connection open.                                  *)
(***************************************************************************)
C3_BackendClosedOnce ==
    \A s \in Sessions :
        LET ss == session[s]
        IN  /\ ss.pc # "done" => ss.events \in {<<>>, <<"connect">>}
            /\ ss.pc = "done" =>
                 ss.events \in {<<>>,
                                <<"connect", "conn.close", "writer.close">>}
            /\ ss.pc \in {"ready", "respond"} => ss.events = <<"connect">>

\* A session that opened the backend ended on a failed send, all closed.
C3_Witness ==
    \E s \in Sessions :
        /\ session[s].pc = "done"
        /\ session[s].ended = "respond"
        /\ session[s].exc.type = "ConnectionError"
        /\ session[s].events = <<"connect", "conn.close", "writer.close">>

(***************************************************************************)
(* C4.  For every SELECT whose backend call succeeds with N columns and M  *)
(* rows the server sends exactly N+M+3 packets: the column count, the N    *)
(* column definitions in column order, EOF (FE 00 00 02 00), the M rows in *)
(* row order, EOF; never a part of them, and each at the next sequence id. *)
(* Violated: the ids do not wrap (C2), so a response that reaches id 256   *)
(* is cut short by struct.error.                                           *)
(***************************************************************************)
C4_ResultSetComplete ==
    \A s \in Sessions :
        LET ss == session[s]
            N == Len(ss.columns)
            M == Len(ss.rows)
        IN  (/\ Len(ss.ops) = 2
             /\ ss.ops[2] = Call("fetchall", None)
             /\ ss.pc \in {"ready", "done"}
             /\ NoIoFailure(ss))
            => /\ Len(ss.resp) = N + M + 3
               /\ SentPayloads(ss) =
                     <<<<N>>>>
                     \o [i \in 1..N |-> ColumnDefinition(ss.columns[i])]
                     \o <<EOF_PACKET>>
                     \o [j \in 1..M |-> RowData(ss.rows[j])]
                     \o <<EOF_PACKET>>
               /\ \A i \in 1..Len(ss.resp) :
                     SentSeqs(ss)[i] = (ss.client_seq + i) % 256

(***************************************************************************)
(* C5.  No backend connection is opened and no command is run against the  *)
(* backend before the session has sent the authentication OK packet: the   *)
(* connection is opened only in the step that sends exactly one OK packet  *)
(* at client_seq + 1, backend calls are made only by connected sessions in *)
(* READY, the states follow AWAIT_HANDSHAKE -> AUTHENTICATING -> READY,    *)
(* and a session that ends before READY has not touched the backend.      *)
(***************************************************************************)
C5_AuthBeforeBackend ==
    [][\A s \in Sessions :
         LET a == session[s]
             b == session'[s]
         IN  /\ (a.events = <<>> /\ b.events # <<>>) =>
                  /\ a.pc = "auth_ok"
                  /\ b.resp = <<Framed(OK_PACKET, a.client_seq + 1)>>
                  /\ b.events = <<"connect">>
                  /\ b.pc = "ready"
             /\ (b.ops # a.ops /\ b.ops # <<>>) =>
                  /\ a.pc = "ready"
                  /\ a.events = <<"connect">>
             /\ (b.pc # a.pc /\ b.pc = "handshake") => a.pc = "init"
             /\ (b.pc # a.pc /\ b.pc \in RejectStates \cup {"auth_ok"}) =>
                  a.pc = "handshake"
             /\ (b.pc # a.pc /\ b.pc = "ready") =>
                  a.pc \in {"auth_ok", "respond"}
             /\ (b.pc # a.pc /\ b.pc = "respond") => a.pc = "ready"
             /\ (b.pc = "done"
                 /\ a.pc \in {"init", "handshake", "auth_ok"}
                             \cup RejectStates) =>
                  /\ b.events = <<>>
                  /\ b.ops = <<>>
      ]_vars

\* An authenticated session: the OK packet sent, the backend just opened.
C5_Witness ==
    \E s \in Sessions :
        /\ session[s].pc = "ready"
        /\ session[s].ncmd = 0
        /\ session[s].events = <<"connect">>
        /\ session[s].resp =
              <<Framed(OK_PACKET, session[s].client_seq + 1)>>

(***************************************************************************)
(* C6.  When the handshake response lacks the plugin-auth capability bit   *)
(* (0x00080000) or has no NUL byte at or after offset 23, the server sends *)
(* exactly one ERR packet at client_seq + 1 and the session ends: no OK    *)
(* packet, no further read.                                                *)
(* Violated: a response shorter than 13 bytes raises IndexError before any *)
(* check, and for client_seq = 255 the ERR send raises struct.error (C2).  *)
(***************************************************************************)
C6_BadHandshakeGetsOneErr ==
    \A s \in Sessions :
        LET ss == session[s]
            d == ss.data
        IN  (/\ AnsweredHandshake(ss)
             /\ ~ClientHasPluginAuth(d) \/ ~ClientHasTerminator(d)
             /\ NoIoFailure(ss))
            => /\ Len(ss.resp) = 1
               /\ IsErr28000(ss.resp[1])
               /\ ss.resp[1][4] = d[4] + 1
               /\ ss.pc = "done"
               /\ ss.events = <<>>

(***************************************************************************)
(* C7.  Whatever makes authentication fail (wrong username, wrong auth     *)
(* response, no salt with a password configured), the client is sent the   *)
(* same bytes - one ERR packet, SQLSTATE 28000, "Access denied", at        *)
(* client_seq + 1 - and the session then ends the same way.                *)
(* Violated: for client_seq = 255 no packet is sent (C2).                  *)
(***************************************************************************)
C7_AccessDeniedUniform ==
    \A s \in Sessions :
        LET ss == session[s]
            d == ss.data
        IN  (/\ AnsweredHandshake(ss)
             /\ Len(d) >= 13
             /\ ClientHasPluginAuth(d)
             /\ ClientHasTerminator(d)
             /\ ~CredentialsValid(srv, d)
             /\ NoIoFailure(ss))
            => /\ ss.resp = <<Framed(ERR_DENIED, d[4] + 1)>>
               /\ ss.pc = "done"
               /\ ss.exc = NoExc
               /\ ss.events = <<>>

(***************************************************************************)
(* C8.  When a read of the command loop times out, the session sends no    *)
(* packet after the timeout, closes its backend connection and its socket, *)
(* ends, and no exception leaves the session handler.                      *)
(***************************************************************************)
C8_IdleTimeoutSilent ==
    [][\A s \in Sessions :
         session'[s].ended = "idle_timeout" =>
            /\ session'[s].resp = session[s].resp
            /\ session'[s].todo = <<>>
            /\ session'[s].pc = "done"
            /\ session'[s].exc = NoExc
            /\ session'[s].events =
                  <<"connect", "conn.close", "writer.close">>
      ]_vars

\* A session timed out idle after it had answered a command.
C8_Witness ==
    \E s \in Sessions :
        /\ session[s].ended = "idle_timeout"
        /\ session[s].ncmd > 0
        /\ session[s].resp # <<>>

(***************************************************************************)
(* C9.  Every accepted session ends with the server having closed the      *)
(* connection's socket, whatever the way out.                              *)
(* (Sessions whose socket failed under a send are left aside: the socket   *)
(* is lost already.)                                                       *)
(* Violated: every return and raise before the try block (handshake read   *)
(* timeout, empty read, the five ERR answers, IndexError, struct.error, a  *)
(* failed connect) leaves the handler without writer.close().              *)
(***************************************************************************)
C9_SocketClosedAtEnd ==
    \A s \in Sessions :
        (session[s].pc = "done" /\ NoIoFailure(session[s])) =>
            \E i \in 1..Len(session[s].events) :
                session[s].events[i] = "writer.close"

(***************************************************************************)
(* C10.  When the backend raises on the query route or on the statement    *)
(* route, a DatabaseError that holds the backend's error leaves the        *)
(* handler, no packet is sent for that command, the session reads no       *)
(* further command, and its backend connection and socket are closed.      *)
(***************************************************************************)
BackendRaised(ss) ==
    /\ ss.ops # <<>>
    /\ ss.ops[Len(ss.ops)].raised # None

C10_BackendErrorEndsSession ==
    \A s \in Sessions :
        LET ss == session[s]
        IN  BackendRaised(ss) =>
              /\ ss.exc = [type |-> "DatabaseError",
                           sqlite_error |-> ss.ops[Len(ss.ops)].raised]
              /\ ss.resp = <<>>
              /\ ss.todo = <<>>
              /\ ss.pc = "done"
              /\ ss.events = <<"connect", "conn.close", "writer.close">>

\* The commit of a statement raised IntegrityError.
C10_Witness ==
    \E s \in Sessions :
        /\ session[s].ops = <<Call("execute", None),
                              Call("commit", "IntegrityError")>>
        /\ session[s].exc.type = "DatabaseError"

(***************************************************************************)
(* Several connections at once.  asyncio runs one handle_client task per   *)
(* accepted connection and interleaves the tasks at their awaits, which    *)
(* are the steps of the model.  The tasks share self and the data file.    *)
(* The packets the clients send are a part of those of Spec: one sequence  *)
(* id, and results of at most one column and one row.                      *)
(***************************************************************************)
SessionsMulti == {1, 2}
\* The commands each of the sessions reads.
MaxCmdsMulti == 1

\* Responses with sequence id 1 and no auth data, and the 2-byte read.
HandshakeInputsMulti ==
    {HandshakeResponse(1, caps, u, TRUE, <<>>) :
        caps \in ClientCapabilities, u \in ClientUsernames}
    \cup {<<1, 0>>}

\* "SELECT 8" and "DELETE" with sequence id 1, and the 2-byte read.
CommandInputsMulti ==
    {CommandPacket(1, <<83, 69, 76, 69, 67, 84, 32, 56>>),
     CommandPacket(1, <<68, 69, 76, 69, 84, 69>>),
     <<1, 0>>}

InitMulti ==
    /\ srv = ServerOf(<<>>, SaltA)
    /\ session = [s \in SessionsMulti |-> NewSession]
    /\ db = 0

NextMulti ==
    \E s \in SessionsMulti :
        \/ Accept(s)
        \/ HandshakeTimeout(s)
        \/ HandshakeEmpty(s)
        \/ RecvHandshake(s) /\ session'[s].data \in HandshakeInputsMulti
        \/ SendReject(s)
        \/ SendAuthOk(s)
        \/ IdleTimeout(s)
        \/ ClientDisconnect(s)
        \/ /\ RecvCommand(s)
           /\ session'[s].ncmd <= MaxCmdsMulti
           /\ session'[s].data \in CommandInputsMulti
           /\ Len(session'[s].columns) <= 1
           /\ Len(session'[s].rows) <= 1
        \/ SendResponse(s)

SpecMulti == InitMulti /\ [][NextMulti]_vars

\* The session ended on an error: a rejected or unreadable handshake, or an
\* exception that left its handler.
EndedOnError(ss) ==
    /\ ss.pc = "done"
    /\ \/ ss.exc # NoExc
       \/ ss.ended \in RejectStates

(***************************************************************************)
(* C11.  With several sessions interleaved, a step in which one session    *)
(* ends on an error (protocol error, authentication failure, backend       *)
(* error, failed send, malformed packet) leaves the listener bound and     *)
(* the server unchanged, and leaves every other session as it was: its     *)
(* sequence counter, its protocol state, its backend connection and calls, *)
(* and the packets it has sent and has still to send.                      *)
(***************************************************************************)
C11_SessionErrorsContained ==
    [][\A s \in DOMAIN session :
         (session'[s] # session[s] /\ EndedOnError(session'[s])) =>
            /\ srv' = srv
            /\ srv'.server # None
            /\ \A t \in DOMAIN session \ {s} : session'[t] = session[t]
      ]_vars

\* One session has ended on a backend error while the other is in the
\* middle of a response, one packet sent and more to send.
C11_Witness ==
    /\ session[1].exc.type = "DatabaseError"
    /\ session[2].pc = "respond"
    /\ Len(session[2].resp) = 1
    /\ session[2].sequence_id = 3
    /\ srv.server # None

(***************************************************************************)
(* C12.  When the write of an ERR packet (plugin not supported, malformed  *)
(* handshake, access denied) fails with an I/O error, no exception leaves  *)
(* the session handler and the connection's socket is closed.              *)
(* Violated: send_packet turns the OSError into a ConnectionError, nothing *)
(* on the ERR paths catches it, and they never reach writer.close().       *)
(***************************************************************************)
C12_ErrWriteFailureSwallowed ==
    \A s \in DOMAIN session :
        LET ss == session[s]
        IN  (ss.ended \in RejectStates /\ ss.io = "fail") =>
              /\ ss.exc = NoExc
              /\ \E i \in 1..Len(ss.events) : ss.events[i] = "writer.close"

\* The leading keyword of a trimmed command text: its first word, up to the
\* first white space, in upper case.
LeadingKeyword(text) ==
    LET spaces == {i \in 1..Len(text) : IsSpace(text[i])}
        end == IF spaces = {} THEN Len(text)
               ELSE (CHOOSE i \in spaces : \A j \in spaces : i <= j) - 1
    IN  Upper(SubSeq(text, 1, end))

\* The route a command text is to take, by its leading keyword.
KeywordRoute(text) ==
    IF LeadingKeyword(text) = KW_SELECT THEN "select"
    ELSE IF LeadingKeyword(text) = KW_USE THEN "use"
    ELSE IF Upper(text) = KW_SHOW_DATABASES THEN "show_databases"
    ELSE "statement"

(***************************************************************************)
(* C13.  Every command read in READY takes exactly one route, decided case *)
(* insensitively by the leading keyword of its text (command byte dropped, *)
(* text trimmed): the query route iff the keyword is SELECT, the OK-only   *)
(* route iff it is USE, the pseudo-result route iff the command is SHOW    *)
(* DATABASES, the statement route otherwise; a first word that merely      *)
(* begins with SELECT or USE does not make a SELECT or USE command.        *)
(* Violated: the code tests startswith("SELECT") and startswith("USE"), so *)
(* "Users" is acknowledged as a USE command.                               *)
(***************************************************************************)
C13_RouteByLeadingKeyword ==
    \A s \in DOMAIN session :
        LET ss == session[s]
        IN  (ss.ncmd > 0 /\ Len(ss.data) >= 4) =>
              /\ ss.route \in {"select", "use", "show_databases", "statement"}
              /\ ss.route = KeywordRoute(Query(ss.data))

\* "Database", "sqlite3"
TextDatabase == <<68, 97, 116, 97, 98, 97, 115, 101>>
TextSqlite3 == <<115, 113, 108, 105, 116, 101, 51>>

\* The session has finished with the command it read: it is back in READY
\* or has ended.
AnsweredCommand(ss) ==
    /\ ss.ncmd > 0
    /\ ss.pc \in {"ready", "done"}

C15_OkIffCommitted ==
    \A s \in DOMAIN session :
        LET ss == session[s]
            ok == <<Framed(OK_PACKET, (ss.client_seq + 1) % 256)>>
            committed == ss.ops = <<Call("execute", None), Call("commit", None)>>
        IN  /\ (ss.route = "statement" /\ ss.resp # <<>>) => committed
            /\ (ss.route = "statement" /\ AnsweredCommand(ss)
                    /\ NoIoFailure(ss)) =>
                  /\ ss.resp \in {<<>>, ok}
                  /\ ss.resp = ok <=> committed
            /\ (/\ AnsweredCommand(ss)
                /\ Len(ss.data) >= 4
                /\ KeywordRoute(Query(ss.data)) = "use"
                /\ NoIoFailure(ss)) =>
                  /\ ss.resp = ok
                  /\ ss.ops = <<>>

(***************************************************************************)
(* C16.  Within one connection the exchange is strictly request/response:  *)
(* after the greeting the server writes packets only in response to a      *)
(* client packet it has read; a step writes and flushes one packet, the    *)
(* next one of the response, before the following one is prepared; and the *)
(* next client packet is read only when every packet of the current        *)
(* response has been written and flushed.                                  *)
(***************************************************************************)
C16_RequestResponse ==
    [][\A s \in DOMAIN session :
         LET a == session[s]
             b == session'[s]
             read == b.data # a.data \/ b.ncmd # a.ncmd
             wrote == b.resp # a.resp /\ b.resp # <<>>
         IN  /\ read =>
                  /\ a.pc \in {"handshake", "ready"}
                  /\ a.todo = <<>>
                  /\ b.resp = <<>>
             /\ wrote =>
                  /\ ~read
                  /\ Len(b.resp) = Len(a.resp) + 1
                  /\ SubSeq(b.resp, 1, Len(a.resp)) = a.resp
                  /\ \/ a.pc = "init" /\ b.resp[1][4] = 0
                     \/ /\ a.data # <<>>
                        /\ a.todo # <<>>
                        /\ SliceFrom(b.resp[Len(b.resp)], 4) = Head(a.todo)
                        /\ b.todo \in {<<>>, Tail(a.todo)}
             /\ (a.pc = "respond" /\ b.pc = "ready") => b.todo = <<>>
      ]_vars

\* A second command has been read and fully answered with a result set.
C16_Witness ==
    \E s \in DOMAIN session :
        /\ session[s].ncmd = 2
        /\ session[s].pc = "ready"
        /\ session[s].route = "select"
        /\ Len(session[s].resp) >= 4

(***************************************************************************)
(* The server's life: MySQLServer() is constructed with the defaults,      *)
(* config() sets fields, start() binds the listener and stop() closes it;  *)
(* while the listener is bound a connection is accepted and authenticated. *)
(* None of the three operations looks at the state of the others, so they  *)
(* come in any order.                                                      *)
(***************************************************************************)
\* MySQLServer(): lines 19-30.
Constructed ==
    [ServerOf(<<>>, NoneBytes) EXCEPT !.server = None]

\* The auth_data values passed to config(): none, empty, 2 bytes, 20 bytes,
\* 21 bytes.
ShortSalt == <<7, 9>>
LongSalt == [i \in 1..21 |-> 100 + i]
ConfigAuthData == {NoneBytes, <<>>, ShortSalt, SaltB, LongSalt}

\* The keyword arguments of a config() call; an argument not passed is None
\* (NoneBytes where the value is a string of bytes, NoneInt where it is an
\* int).
NoneInt == -1

NoArgs ==
    [host |-> None, port |-> NoneInt, username |-> NoneBytes,
     password |-> NoneBytes, server_version |-> NoneBytes,
     auth_plugin |-> NoneBytes, auth_data |-> NoneBytes,
     capability_flags |-> NoneInt, charset |-> NoneInt,
     status_flags |-> NoneInt, data_file |-> None]

ConfigArgs ==
    {[NoArgs EXCEPT !.host = h, !.password = p, !.auth_data = a] :
        h \in {None, "0.0.0.0"},
        p \in {NoneBytes, <<112, 119>>},
        a \in ConfigAuthData}

\* Every config() call draws a new salt whatever it has.
salt_regenerated(auth_data, random) == random

\* MySQLServer.config, lines 67-72: the salt after the assignments.  random
\* is what os.urandom(20) returns.
salt_of(auth_data, random) ==
    IF auth_data = NoneBytes \/ auth_data = <<>>
    THEN random
    ELSE IF Len(auth_data) < 20
    THEN Slice(Ljust(auth_data, 20), 0, 20)
    ELSE auth_data

\* MySQLServer.config, lines 47-74.
config(self, args, random) ==
    LET set == [self EXCEPT
                  !._host = IF args.host # None THEN args.host ELSE @,
                  !._port = IF args.port # NoneInt THEN args.port ELSE @,
                  !._username =
                      IF args.username # NoneBytes THEN args.username ELSE @,
                  !._password =
                      IF args.password # NoneBytes THEN args.password ELSE @,
                  !._server_version =
                      IF args.server_version # NoneBytes
                      THEN args.server_version ELSE @,
                  !._auth_plugin =
                      IF args.auth_plugin # NoneBytes
                      THEN args.auth_plugin ELSE @,
                  !._auth_data =
                      IF args.auth_data # NoneBytes THEN args.auth_data ELSE @,
                  !._capability_flags =
                      IF args.capability_flags # NoneInt
                      THEN args.capability_flags ELSE @,
                  !._charset =
                      IF args.charset # NoneInt THEN args.charset ELSE @,
                  !._status_flags =
                      IF args.status_flags # NoneInt
                      THEN args.status_flags ELSE @,
                  !._data_file =
                      IF args.data_file # None THEN args.data_file ELSE @]
    IN  [set EXCEPT !._auth_data = salt_of(@, random)]

Config ==
    /\ \E args \in ConfigArgs, random \in Salts :
         srv' = config(srv, args, random)
    /\ UNCHANGED <<session, db>>

\* MySQLServer.start, lines 128-134: RuntimeError while self.server is set;
\* otherwise start_server binds the listener, or raises OSError and
\* self.server stays None.
Start ==
    /\ srv.server = None
    /\ \E bound \in BOOLEAN :
         srv' = [srv EXCEPT !.server = IF bound THEN Listening ELSE None]
    /\ UNCHANGED <<session, db>>

\* MySQLServer.stop, lines 138-141.
Stop ==
    /\ srv' = [srv EXCEPT !.server = None]
    /\ UNCHANGED <<session, db>>

\* The handshake responses of the one client: user "vortex", sequence id 1,
\* no auth data or the scramble of "pw" under SaltB.
HandshakeInputsServer ==
    {HandshakeResponse(1, caps, DefaultUsername, TRUE, a) :
        caps \in ClientCapabilities,
        a \in {<<>>, Scramble(<<112, 119>>, SaltB)}}

InitServer ==
    /\ srv = Constructed
    /\ session = [s \in Sessions |-> NewSession]
    /\ db = 0

NextServer ==
    \/ Config
    \/ Start
    \/ Stop
    \/ \E s \in Sessions :
          \/ Accept(s)
          \/ HandshakeTimeout(s)
          \/ RecvHandshake(s) /\ session'[s].data \in HandshakeInputsServer
          \/ SendReject(s)
          \/ SendAuthOk(s)
          \/ ClientDisconnect(s)

SpecServer == InitServer /\ [][NextServer]_vars

\* The salt a client reads in a greeting packet (Protocol 10): after the
\* NUL of the server version and the 4-byte connection id, 8 bytes; then,
\* after filler (1), capabilities (2), charset (1), status (2),
\* capabilities (2), length (1) and the reserved block (10), 12 bytes.
AdvertisedSalt(packet) ==
    LET payload == SliceFrom(packet, 4)
        z == Find(payload, 0, 1)
    IN  Slice(payload, z + 5, z + 13) \o Slice(payload, z + 32, z + 44)

(***************************************************************************)
(* C17.  On every accepted connection the first packet the server sends is *)
(* the greeting, with sequence id 0, and the 20 salt bytes it advertises   *)
(* (8 before the filler, 12 after the reserved block) are exactly the salt *)
(* the authenticator computes expected from, srv._auth_data, however the   *)
(* server was constructed and configured.  (Stated for servers with a      *)
(* password, where expected is computed.)                                  *)
(* Violated: config() keeps an auth_data longer than 20 bytes as it is     *)
(* (C18); the authenticator hashes all of it, the greeting's salt fields   *)
(* hold its first 20 bytes.                                                *)
(***************************************************************************)
C17_GreetingAdvertisesSalt ==
    [][\A s \in DOMAIN session :
         (session[s].pc = "init" /\ session'[s].pc = "handshake") =>
            LET greeting == session'[s].resp[1]
            IN  /\ session'[s].resp = <<greeting>>
                /\ greeting[4] = 0
                /\ greeting[5] = 10
                /\ srv._password # <<>> =>
                      /\ Len(AdvertisedSalt(greeting)) = 20
                      /\ AdvertisedSalt(greeting) = srv._auth_data
      ]_vars

(***************************************************************************)
(* C18.  In every reachable state in which a session can start (the        *)
(* listener is bound) the authentication salt is exactly 20 bytes long:    *)
(* config() pads a shorter auth_data with zeros, truncates a longer one,   *)
(* and generates 20 bytes when none is given.                              *)
(* Violated: config() does not truncate (line 71 tests only < 20), and a   *)
(* server started without config() has no salt at all.                     *)
(***************************************************************************)
C18_SaltIs20Bytes ==
    srv.server # None =>
        /\ srv._auth_data # NoneBytes
        /\ Len(srv._auth_data) = 20

\* The ServerIdentity and Credentials fields of a MySQLServer.
Identity(self) ==
    <<self._host, self._port, self._username, self._password,
      self._server_version, self._auth_plugin, self._capability_flags,
      self._charset, self._status_flags, self._auth_data>>

(***************************************************************************)
(* C19.  Once the listener is bound and sessions can start, no identity or *)
(* credentials field (host, port, username, password, version, plugin      *)
(* name, capability flags, charset, status flags, salt) changes, whatever  *)
(* public operations (config, start, stop) and session steps follow.       *)
(* Violated: config() assigns the fields whether or not self.server is     *)
(* set.                                                                    *)
(***************************************************************************)
C19_IdentityFrozenWhileBound ==
    [][srv.server # None => Identity(srv') = Identity(srv)]_vars

(***************************************************************************)
(* send_packet on its own: a caller holding a writer calls                 *)
(* sequence_id = await server.send_packet(writer, payload, sequence_id)    *)
(* with a payload of payload_len bytes.  The session of the caller is its  *)
(* frame: the arguments, and after the call what was handed to the writer, *)
(* the exception raised and the caller's sequence_id.                      *)
(***************************************************************************)
\* The longest of the short payloads.
MaxShortPayload == 2
\* The sequence ids passed: every byte value, and 256.
SendSeqs == 0..256

\* b \o b \o ... (2^k times)
RECURSIVE Doubled(_, _)
Doubled(b, k) == IF k = 0 THEN b ELSE LET h == Doubled(b, k - 1) IN h \o h

\* The shortest payload that is too long: 2^24 = 0xFFFFFF + 1 bytes.
Oversized == Doubled(<<0>>, 24)

\* A payload whose length takes three bytes, 0x010203, each different.
LongLen == 66051
LongPayload == [i \in 1..LongLen |-> i % 256]

\* The lengths passed: the short ones, 0x0102, 0x010203 and 0xFFFFFF + 1.
PayloadLens == 0..MaxShortPayload \cup {258, LongLen, MaxPayload + 1}

PayloadOf(n) ==
    IF n = MaxPayload + 1 THEN Oversized
    ELSE IF n = LongLen THEN LongPayload
    ELSE [i \in 1..n |-> (64 + i) % 256]

Frame(n, seq) ==
    [pc |-> "call", payload_len |-> n, seq |-> seq, sequence_id |-> seq,
     written |-> <<>>, raised |-> NoExc]

InitSend ==
    /\ srv = ServerOf(<<>>, SaltA)
    /\ session \in [Sessions -> {Frame(n, q) : n \in PayloadLens, q \in SendSeqs}]
    /\ db = 0

CallSendPacket(s) ==
    /\ session[s].pc = "call"
    /\ \E io \in IoOutcomes :
         LET f == session[s]
             r == send_packet(PayloadOf(f.payload_len), f.seq, io)
         IN  session' = [session EXCEPT ![s] =
                 IF r.raised # NoExc
                 THEN [f EXCEPT !.pc = "raised", !.written = r.written,
                                !.raised = r.raised]
                 ELSE [f EXCEPT !.pc = "returned", !.written = r.written,
                                !.sequence_id = r.ret]]
    /\ UNCHANGED <<srv, db>>

NextSend == \E s \in Sessions : CallSendPacket(s)

SpecSend == InitSend /\ [][NextSend]_vars

(***************************************************************************)
(* C20.  For every sequence id, sending a payload longer than 0xFFFFFF     *)
(* bytes fails with a ProtocolError, writes no byte to the socket and does *)
(* not advance the sequence id; the payload is never split into several    *)
(* packets (a call hands at most one packet to the writer, and that packet *)
(* holds the whole payload).                                               *)
(***************************************************************************)
C20_OversizedPayloadRejected ==
    \A s \in DOMAIN session :
        LET f == session[s]
        IN  f.pc # "call" =>
              /\ f.payload_len > 16777215 =>
                    /\ f.pc = "raised"
                    /\ f.raised = Exc("ProtocolError")
                    /\ f.written = <<>>
                    /\ f.sequence_id = f.seq
              /\ Len(f.written) <= 1
              /\ \A i \in 1..Len(f.written) :
                    Len(f.written[i]) = 4 + f.payload_len

\* A payload of 0xFFFFFF + 1 bytes was refused at sequence id 255.
C20_Witness ==
    \E s \in DOMAIN session :
        /\ session[s].pc = "raised"
        /\ session[s].payload_len = 16777216
        /\ session[s].seq = 255
        /\ session[s].raised.type = "ProtocolError"

(***************************************************************************)
(* C21.  For every payload of n bytes, 0 <= n <= 0xFFFFFF, and every       *)
(* sequence id in 0..255, decoding the bytes the encoder produces (3-byte  *)
(* little-endian length, 1-byte sequence id, payload) with the inbound     *)
(* parsing rule (length from bytes 0..2, sequence id from byte 3, payload  *)
(* from the next length bytes) yields (n, sequence id, payload).           *)
(***************************************************************************)
C21_EncodeDecodeRoundTrip ==
    \A s \in DOMAIN session :
        LET f == session[s]
        IN  (/\ f.pc # "call"
             /\ f.payload_len <= 16777215
             /\ f.seq \in 0..255) =>
              /\ Len(f.written) = 1
              /\ PacketLen(f.written[1]) = f.payload_len
              /\ PacketSeq(f.written[1]) = f.seq
              /\ PacketPayload(f.written[1]) = PayloadOf(f.payload_len)
              /\ Len(f.written[1]) = 4 + f.payload_len

\* A payload of 0x010203 bytes was sent with sequence id 255.
C21_Witness ==
    \E s \in DOMAIN session :
        /\ session[s].pc = "returned"
        /\ session[s].payload_len = 66051
        /\ session[s].seq = 255
        /\ SubSeq(session[s].written[1], 1, 4) = <<3, 2, 1, 255>>

(***************************************************************************)
(* The connection as a stream of bytes.  The client writes command packets *)
(* to its socket, one after the other without waiting; reader.read(1024)   *)
(* returns the bytes that have arrived, at least one and at most 1024,     *)
(* wherever the packets begin and end.  The session carries, besides the   *)
(* handler's locals:                                                       *)
(*     sent         the command packets the client has written             *)
(*     wire         the bytes written and not yet read                     *)
(*     dispatched   the query texts the loop has routed                    *)
(***************************************************************************)
\* The command packets the client writes.
MaxSent == 2
ReadSize == 1024

\* "DELETE" and " use d", sequence id 0.
StreamPackets ==
    {CommandPacket(0, <<68, 69, 76, 69, 84, 69>>),
     CommandPacket(0, <<32, 117, 115, 101, 32, 100>>)}

\* The one client: user "vortex", no auth data, against the default server.
HandshakeInputsStream ==
    {HandshakeResponse(1, 1025669, DefaultUsername, TRUE, <<>>)}

InitStream ==
    /\ srv = ServerOf(<<>>, SaltA)
    /\ session = [s \in Sessions |->
          [pc |-> "init", data |-> <<>>, client_seq |-> 0, sequence_id |-> 0,
           todo |-> <<>>, resp |-> <<>>, events |-> <<>>, ops |-> <<>>,
           columns |-> <<>>, rows |-> <<>>, ncmd |-> 0, route |-> "none",
           io |-> "ok", exc |-> NoExc, ended |-> "no",
           sent |-> <<>>, wire |-> <<>>, dispatched |-> <<>>]]
    /\ db = 0

\* The authenticated client writes its next command packet.
ClientSend(s) ==
    /\ session[s].pc \in {"ready", "respond"}
    /\ Len(session[s].sent) < MaxSent
    /\ \E p \in StreamPackets :
         session' = [session EXCEPT ![s].sent = @ \o <<p>>,
                                    ![s].wire = @ \o p]
    /\ UNCHANGED <<srv, db>>

\* parse_client_packet, lines 120-197, with data = what read(1024) returns:
\* the first k bytes on the wire.
ReadStream(s) ==
    /\ session[s].pc = "ready"
    /\ session[s].wire # <<>>
    /\ session[s].ncmd < MaxSent + 1
    /\ \E k \in 1..Min(Len(session[s].wire), ReadSize) :
         LET d == SubSeq(session[s].wire, 1, k)
         IN  \E sel \in SelectOutcomesFor(d), st \in StatementOutcomesFor(d) :
               LET r == Dispatch(session[s], d, sel, st)
               IN  /\ session' = [session EXCEPT ![s] =
                         [r.session EXCEPT
                            !.wire = SubSeq(@, k + 1, Len(@)),
                            !.dispatched =
                                IF Len(d) < 4 THEN @ ELSE @ \o <<Query(d)>>]]
                   /\ db' = db + r.committed
    /\ UNCHANGED srv

NextStream ==
    \E s \in Sessions :
        \/ Accept(s)
        \/ RecvHandshake(s) /\ session'[s].data \in HandshakeInputsStream
        \/ SendAuthOk(s)
        \/ ClientSend(s)
        \/ ReadStream(s)
        \/ SendResponse(s)
        \/ ClientDisconnect(s)

SpecStream == InitStream /\ [][NextStream]_vars

(***************************************************************************)
(* C22.  Every command packet the client sends to an authenticated session *)
(* that stays open is dispatched exactly once, none dropped and none       *)
(* dispatched twice, also when one read delivers two packets or a packet   *)
(* arrives across two reads: once the session has read all the bytes and   *)
(* is open in READY, the commands it has routed are those of the packets   *)
(* sent, one for one and in order.                                         *)
(* Violated: each read is parsed as one packet; of two packets in one read *)
(* the second is dropped without a trace, and the parts of a packet that   *)
(* arrives in two reads are routed as two commands.                        *)
(***************************************************************************)
C22_EachPacketDispatchedOnce ==
    \A s \in DOMAIN session :
        LET ss == session[s]
        IN  (ss.pc = "ready" /\ ss.wire = <<>>) =>
              ss.dispatched = [i \in 1..Len(ss.sent) |-> Query(ss.sent[i])]

(***************************************************************************)
(* start() and stop() as the coroutines they are.  Each suspends at its    *)
(* awaits, where other calls on the same MySQLServer run:                  *)
(*     start   test self.server; await start_server(...); assign           *)
(*             self.server; await serve_forever()                          *)
(*     stop    test self.server; close(); await wait_closed(); assign None *)
(* Start and Stop above are these run from the first line to the last with *)
(* no other call in between.  Here session holds one frame per call, and   *)
(* a listener is named after the start() call that made it: self.server is *)
(* None or that name, and the frame's listener field says whether the      *)
(* listening socket is bound or closed.                                    *)
(***************************************************************************)
Starters == {"start1", "start2"}
Stoppers == {"stop1", "stop2"}

\* Port 0 asks the system for any free port.
AnyPort == 0
Ports == {DefaultPort, AnyPort}

IdleCall(op) ==
    [op |-> op, pc |-> "idle", exc |-> "none", listener |-> "none"]

BoundListeners == {c \in Starters : session[c].listener = "bound"}

InitLifecycle ==
    /\ \E port \in Ports : srv = [Constructed EXCEPT !._port = port]
    /\ session = [c \in Starters \cup Stoppers |->
                    IdleCall(IF c \in Starters THEN "start" ELSE "stop")]
    /\ db = 0

\* start(), lines 128-129: the test of self.server.
StartCall(c) ==
    /\ session[c].pc = "idle"
    /\ session' = [session EXCEPT ![c] =
          IF srv.server # None
          THEN [@ EXCEPT !.pc = "raised", !.exc = "RuntimeError"]
          ELSE [@ EXCEPT !.pc = "bind"]]
    /\ UNCHANGED <<srv, db>>

\* start(), lines 131 and 133-134: start_server returns a listener, which
\* is assigned to self.server, or raises OSError.  A fixed port that this
\* process already listens on cannot be bound again; any bind can fail.
StartBind(c) ==
    /\ session[c].pc = "bind"
    /\ \E ok \in BOOLEAN :
         IF ok /\ (srv._port = AnyPort \/ BoundListeners = {})
         THEN /\ session' = [session EXCEPT ![c].pc = "serve",
                                            ![c].listener = "bound"]
              /\ srv' = [srv EXCEPT !.server = c]
         ELSE /\ session' = [session EXCEPT ![c].pc = "raised",
                                            ![c].exc = "ConnectionError"]
              /\ srv' = srv
    /\ db' = db

\* start(), line 132: serve_forever() ends when its listener is closed.
ServeForeverEnds(c) ==
    /\ session[c].pc = "serve"
    /\ session[c].listener = "closed"
    /\ session' = [session EXCEPT ![c].pc = "raised",
                                  ![c].exc = "CancelledError"]
    /\ UNCHANGED <<srv, db>>

\* stop(), lines 138-140: the test of self.server, close(), and the await.
StopCall(c) ==
    /\ session[c].pc = "idle"
    /\ session' =
          IF srv.server # None
          THEN [session EXCEPT ![c].pc = "wait_closed",
                               ![srv.server].listener =
                                   IF @ = "bound" THEN "closed" ELSE @]
          ELSE [session EXCEPT ![c].pc = "returned"]
    /\ UNCHANGED <<srv, db>>

\* stop(), line 141, after wait_closed() returns.
StopReturn(c) ==
    /\ session[c].pc = "wait_closed"
    /\ session' = [session EXCEPT ![c].pc = "returned"]
    /\ srv' = [srv EXCEPT !.server = None]
    /\ db' = db

\* The call is over; the caller calls again.
CallAgain(c) ==
    /\ session[c].pc \in {"raised", "returned"}
    /\ session' = [session EXCEPT ![c] = IdleCall(@.op)]
    /\ UNCHANGED <<srv, db>>

NextLifecycle ==
    \/ \E c \in Starters : StartCall(c)
    \/ \E c \in Starters : StartBind(c)
    \/ \E c \in Starters : ServeForeverEnds(c)
    \/ \E c \in Stoppers : StopCall(c)
    \/ \E c \in Stoppers : StopReturn(c)
    \/ \E c \in Starters \cup Stoppers : CallAgain(c)

SpecLifecycle == InitLifecycle /\ [][NextLifecycle]_vars

(***************************************************************************)
(* C23.  A MySQLServer has at most one bound listener at any time, under   *)
(* every interleaving of start() and stop() calls.                         *)
(* Violated: start() tests self.server before it awaits start_server() and *)
(* assigns it after; two start() calls both pass the test while neither    *)
(* has bound, and with port 0 both bind.                                   *)
(***************************************************************************)
C23_AtMostOneListener ==
    Cardinality(BoundListeners) <= 1

(***************************************************************************)
(* config() called on a new MySQLServer, or on one an earlier config()     *)
(* call has returned, with every subset of its eleven keyword arguments.   *)
(* session holds the call: its arguments and the object before it.         *)
(***************************************************************************)
\* Every subset of the arguments, one value for each but auth_data; the
\* ints passed are 0 where 0 is a value the field can take.
ConfigArgsAll ==
    [host : {None, "0.0.0.0"},
     port : {NoneInt, AnyPort},
     username : {NoneBytes, <<114, 111, 111, 116>>},
     password : {NoneBytes, <<112, 119>>},
     server_version : {NoneBytes, <<56>>},
     auth_plugin : {NoneBytes, <<120>>},
     auth_data : ConfigAuthData,
     capability_flags : {NoneInt, 0},
     charset : {NoneInt, 45},
     status_flags : {NoneInt, 0},
     data_file : {None, "/tmp/other.db"}]

\* The earlier call: no argument, a salt of 21 bytes, or a password.
EarlierArgs ==
    {NoArgs,
     [NoArgs EXCEPT !.auth_data = LongSalt],
     [NoArgs EXCEPT !.password = <<115>>, !.status_flags = 0]}

InitConfig ==
    /\ srv = Constructed
    /\ session = [pc |-> "new", args |-> NoArgs, before |-> Constructed]
    /\ db = 0

EarlierConfig ==
    /\ session.pc = "new"
    /\ \E args \in EarlierArgs, random \in Salts :
         srv' = config(srv, args, random)
    /\ session' = [session EXCEPT !.pc = "configured"]
    /\ db' = db

ConfigCall ==
    /\ session.pc \in {"new", "configured"}
    /\ \E args \in ConfigArgsAll, random \in Salts :
         /\ srv' = config(srv, args, random)
         /\ session' = [pc |-> "returned", args |-> args, before |-> srv]
    /\ db' = db

NextConfig ==
    \/ EarlierConfig
    \/ ConfigCall

SpecConfig == InitConfig /\ [][NextConfig]_vars

\* The object with exactly the arguments passed assigned to their fields.
Overridden(self, args) ==
    [_host |-> IF args.host # None THEN args.host ELSE self._host,
     _port |-> IF args.port # NoneInt THEN args.port ELSE self._port,
     _data_file |->
         IF args.data_file # None THEN args.data_file ELSE self._data_file,
     server |-> self.server,
     _username |->
         IF args.username # NoneBytes THEN args.username ELSE self._username,
     _password |->
         IF args.password # NoneBytes THEN args.password ELSE self._password,
     _server_version |->
         IF args.server_version # NoneBytes
         THEN args.server_version ELSE self._server_version,
     _auth_plugin |->
         IF args.auth_plugin # NoneBytes
         THEN args.auth_plugin ELSE self._auth_plugin,
     _auth_data |->
         IF args.auth_data # NoneBytes
         THEN args.auth_data ELSE self._auth_data,
     _capability_flags |->
         IF args.capability_flags # NoneInt
         THEN args.capability_flags ELSE self._capability_flags,
     _charset |->
         IF args.charset # NoneInt THEN args.charset ELSE self._charset,
     _status_flags |->
         IF args.status_flags # NoneInt
         THEN args.status_flags ELSE self._status_flags]

\* Equal in every field but the salt.
SameButSalt(a, b) ==
    [a EXCEPT !._auth_data = <<>>] = [b EXCEPT !._auth_data = <<>>]

(***************************************************************************)
(* C24 as stated.  config() called with any subset of its fields sets      *)
(* exactly the fields passed and leaves every other field unchanged.       *)
(* Violated: on a MySQLServer that has no salt, config() without auth_data *)
(* sets _auth_data; auth_data shorter than 20 bytes is stored padded, and  *)
(* empty auth_data is replaced by a new salt.                              *)
(***************************************************************************)
C24_SetsExactlyFieldsPassed ==
    session.pc = "returned" => srv = Overridden(session.before, session.args)

(***************************************************************************)
(* C24, amended.  config() called with any subset of its fields sets       *)
(* exactly the fields passed and leaves every other field unchanged, save  *)
(* for the salt: auth_data of 20 bytes or more is stored as passed;        *)
(* shorter auth_data is stored padded with zero bytes to 20; a salt        *)
(* already set is kept, not regenerated, when auth_data is not passed, so  *)
(* two config() calls without auth_data yield the same salt; and when      *)
(* auth_data is empty, or is not passed and no salt is set, the salt is a  *)
(* new one of 20 bytes.                                                    *)
(***************************************************************************)
C24_SetsFieldsPassedAndKeepsSalt ==
    session.pc = "returned" =>
        LET b == session.before
            a == session.args
            passed == a.auth_data # NoneBytes
            unset == b._auth_data = NoneBytes \/ b._auth_data = <<>>
        IN  /\ SameButSalt(srv, Overridden(b, a))
            /\ (passed /\ Len(a.auth_data) >= 20) =>
                  srv._auth_data = a.auth_data
            /\ (passed /\ Len(a.auth_data) \in 1..19) =>
                  /\ Len(srv._auth_data) = 20
                  /\ \A i \in 1..20 :
                        srv._auth_data[i] =
                            IF i <= Len(a.auth_data) THEN a.auth_data[i] ELSE 0
            /\ (~passed /\ ~unset) => srv._auth_data = b._auth_data
            /\ ((passed /\ a.auth_data = <<>>) \/ (~passed /\ unset)) =>
                  srv._auth_data \in Salts

\* The second of two config() calls, without auth_data but with a port and
\* status flags of 0, has returned; the salt is the first call's.
C24_Witness ==
    /\ session.pc = "returned"
    /\ session.before._auth_data \in Salts
    /\ session.args.auth_data = NoneBytes
    /\ session.args.port = AnyPort /\ srv._port = AnyPort
    /\ session.args.status_flags = 0 /\ srv._status_flags = 0
    /\ session.args.host = None /\ srv._host = DefaultHost
    /\ srv._auth_data = session.before._auth_data

====
